---- MODULE Spec2Model ----
(***************************************************************************)
(* Bank-to-ledger reconciliation of Astraea: the Celery tasks of           *)
(* reconciliation/tasks.py over the tables of reconciliation/models.py.    *)
(*                                                                         *)
(* Dates are day numbers, amounts are integer cents (DecimalField with     *)
(* decimal_places=2), descriptions are sequences of one-character strings. *)
(* Scores are exact rationals <<n, d>> in lowest terms; Python computes    *)
(* them in binary floating point, which this model does not round.         *)
(***************************************************************************)
EXTENDS Integers, Sequences, FiniteSets, TLC

VARIABLES session, ledger_records, bank_records, matches, exceptions,
          task, dispatched, call

vars == <<session, ledger_records, bank_records, matches, exceptions,
          task, dispatched, call>>

db == <<session, ledger_records, bank_records, matches, exceptions>>

(***************************************************************************)
(* Bounds of the model.                                                    *)
(***************************************************************************)
MaxRows == 2        \* rows per uploaded file
MaxRuns == 2        \* runs of start_reconciliation_matching per session
MaxDay == 2         \* dates drawn for the scoring function: 0..MaxDay
MaxCents == 2       \* amounts drawn for the scoring function: -MaxCents..MaxCents
MaxTolDays == 2     \* date tolerances drawn for the scoring function
MaxTolCents == 2    \* amount tolerances drawn for the scoring function
MaxDescLen == 3     \* description lengths drawn for the similarity function

(***************************************************************************)
(* Rational arithmetic for the float scores.                               *)
(***************************************************************************)
Abs(x) == IF x < 0 THEN -x ELSE x

RECURSIVE Gcd(_, _)
Gcd(a, b) == IF b = 0 THEN a ELSE Gcd(b, a % b)

Rat(n, d) ==
    LET g == Gcd(Abs(n), Abs(d))
        s == IF d < 0 THEN -1 ELSE 1
    IN  <<(s * n) \div g, (s * d) \div g>>

RAdd(x, y) == Rat(x[1] * y[2] + y[1] * x[2], x[2] * y[2])
RMul(x, y) == Rat(x[1] * y[1], x[2] * y[2])
RSub(x, y) == Rat(x[1] * y[2] - y[1] * x[2], x[2] * y[2])
RLt(x, y) == x[1] * y[2] < y[1] * x[2]
RLe(x, y) == x[1] * y[2] <= y[1] * x[2]
RMin(x, y) == IF RLe(x, y) THEN x ELSE y

Zero == Rat(0, 1)
One == Rat(1, 1)

(***************************************************************************)
(* Program constants of the matching engine.                               *)
(***************************************************************************)
DateWeight == Rat(3, 10)            \* tasks.py:316
AmountWeight == Rat(4, 10)          \* tasks.py:323
DescriptionWeight == Rat(3, 10)     \* tasks.py:332
MinConfidenceSixty == Rat(6, 10)    \* mutant: a floor that date and description reach
MinConfidence == Rat(7, 10)         \* tasks.py:266
ExactThreshold == Rat(95, 100)      \* tasks.py:277
PartialThreshold == Rat(8, 10)      \* tasks.py:279
DescriptionLimit == 100             \* tasks.py:371

(***************************************************************************)
(* Characters.  str.lower(), the class [^\w\s] and str.split() over the    *)
(* characters the model draws.                                             *)
(***************************************************************************)
UpperCase == {"A", "B", "C", "I", "O", "S"}
LowerCase == {"a", "b", "c", "e", "f", "i", "l", "n", "o", "p", "s", "t", "u", "y"}
Digits == {"0", "1", "2", "3", "4", "5", "6", "7", "8", "9"}
WhiteSpace == {" "}

Lower(c) ==
    CASE c = "A" -> "a" [] c = "B" -> "b" [] c = "C" -> "c"
      [] c = "I" -> "i" [] c = "O" -> "o" [] c = "S" -> "s"
      [] OTHER -> c

IsWordChar(c) == c \in UpperCase \cup LowerCase \cup Digits \cup {"_"}
IsSpace(c) == c \in WhiteSpace

LowerStr(s) == [i \in 1..Len(s) |-> Lower(s[i])]

\* re.sub(r'[^\w\s]', '', s)
StripPunctuation(s) == SelectSeq(s, LAMBDA c : IsWordChar(c) \/ IsSpace(c))

\* str.split(): the maximal runs of non-whitespace characters
RECURSIVE SplitFrom(_, _, _)
SplitFrom(s, i, cur) ==
    IF i > Len(s)
    THEN IF cur = <<>> THEN <<>> ELSE <<cur>>
    ELSE IF IsSpace(s[i])
         THEN (IF cur = <<>> THEN <<>> ELSE <<cur>>) \o SplitFrom(s, i + 1, <<>>)
         ELSE SplitFrom(s, i + 1, Append(cur, s[i]))

Split(s) == SplitFrom(s, 1, <<>>)

\* str.strip()
RECURSIVE LStrip(_)
LStrip(s) == IF s # <<>> /\ IsSpace(Head(s)) THEN LStrip(Tail(s)) ELSE s

RECURSIVE RStrip(_)
RStrip(s) ==
    IF s # <<>> /\ IsSpace(s[Len(s)]) THEN RStrip(SubSeq(s, 1, Len(s) - 1)) ELSE s

Strip(s) == RStrip(LStrip(s))

Range(f) == {f[i] : i \in DOMAIN f}

WordSet(desc) == Range(Split(Strip(StripPunctuation(LowerStr(desc)))))

(***************************************************************************)
(* calculate_description_similarity                                        *)
(***************************************************************************)
calculate_description_similarity(desc1, desc2) ==
    LET words1 == WordSet(desc1)
        words2 == WordSet(desc2)
        intersection == Cardinality(words1 \cap words2)
        union == Cardinality(words1 \cup words2)
    IN  IF words1 = {} \/ words2 = {} THEN Zero
        ELSE IF union = 0 THEN Zero
        ELSE Rat(intersection, union)

(***************************************************************************)
(* calculate_match_score.  date_tolerance is the number of days of the     *)
(* timedelta; amounts and amount_tolerance are in cents, so that           *)
(* float(amount_diff) / (float(amount_tolerance) + 0.01) is                *)
(* amount_diff / (amount_tolerance + 1).                                   *)
(***************************************************************************)
\* mutant: the decay applied whatever the tolerance
DateComponentUnbounded(date_diff, date_tolerance) ==
    IF date_diff = 0 THEN DateWeight
    ELSE RMul(DateWeight, RSub(One, Rat(date_diff, date_tolerance + 1)))

DateComponent(date_diff, date_tolerance) ==
    IF date_diff = 0 THEN DateWeight
    ELSE IF date_diff <= date_tolerance
         THEN RMul(DateWeight, RSub(One, Rat(date_diff, date_tolerance + 1)))
         ELSE Zero

\* mutant: the full weight within the tolerance, without the decay
AmountComponentFlat(amount_diff, amount_tolerance) ==
    IF amount_diff <= amount_tolerance THEN AmountWeight ELSE Zero

\* mutant: the decay divides by the tolerance alone
AmountComponentNoCent(amount_diff, amount_tolerance) ==
    IF amount_diff = 0 THEN AmountWeight
    ELSE IF amount_diff <= amount_tolerance
         THEN RMul(AmountWeight, RSub(One, Rat(amount_diff, amount_tolerance)))
         ELSE Zero

AmountComponent(amount_diff, amount_tolerance) ==
    IF amount_diff = 0 THEN AmountWeight
    ELSE IF amount_diff <= amount_tolerance
         THEN RMul(AmountWeight, RSub(One, Rat(amount_diff, amount_tolerance + 1)))
         ELSE Zero

calculate_match_score(ledger_record, bank_record, date_tolerance, amount_tolerance) ==
    LET date_diff == Abs(ledger_record.date - bank_record.date)
        amount_diff == Abs(ledger_record.amount - bank_record.amount)
        desc_score == calculate_description_similarity(ledger_record.description,
                                                       bank_record.description)
        score == RAdd(RAdd(DateComponent(date_diff, date_tolerance),
                           AmountComponent(amount_diff, amount_tolerance)),
                      RMul(DescriptionWeight, desc_score))
    IN  RMin(score, One)

(***************************************************************************)
(* The tables of reconciliation/models.py.  A row's id is its position in  *)
(* its table; None is Python's None.                                       *)
(***************************************************************************)
None == <<>>
NoRecord == 0       \* a null ForeignKey

Sessions == DOMAIN session
Workers == DOMAIN task

\* ReconciliationSession.STATUS_CHOICES
STATUS_CHOICES == {"created", "processing", "completed", "failed"}

\* ReconciliationSession, with the defaults of its fields
NewSession(ledger_file, bank_statement_file, date_tolerance_days, amount_tolerance) ==
    [status |-> "created",
     ledger_file |-> ledger_file,
     bank_statement_file |-> bank_statement_file,
     date_tolerance_days |-> date_tolerance_days,
     amount_tolerance |-> amount_tolerance,
     total_ledger_records |-> 0,
     total_bank_records |-> 0,
     matched_records |-> 0,
     unmatched_ledger_records |-> 0,
     unmatched_bank_records |-> 0,
     processed_at |-> FALSE]

\* LedgerRecord / BankRecord
NewRecord(s, date, description, amount, row_number) ==
    [session |-> s,
     date |-> date,
     description |-> description,
     amount |-> amount,
     row_number |-> row_number,
     is_matched |-> FALSE,
     match_confidence |-> None]

\* TransactionMatch
NewMatch(s, ledger_record, bank_record, match_type, confidence_score, date_difference_days, amount_difference) ==
    [session |-> s,
     ledger_record |-> ledger_record,
     bank_record |-> bank_record,
     match_type |-> match_type,
     confidence_score |-> confidence_score,
     date_difference_days |-> date_difference_days,
     amount_difference |-> amount_difference,
     is_confirmed |-> FALSE]

\* ReconciliationException
NewException(s, exception_type, ledger_record, bank_record, description, severity) ==
    [session |-> s,
     exception_type |-> exception_type,
     status |-> "open",
     ledger_record |-> ledger_record,
     bank_record |-> bank_record,
     description |-> description,
     severity |-> severity]

\* mutant: the related manager without its filter on the session
OfSessionAll(table, s) == {i \in DOMAIN table : table[i].session = table[i].session}

\* session.ledger_records / session.bank_records / session.matches / session.exceptions
OfSession(table, s) == {i \in DOMAIN table : table[i].session = s}

\* mutant: the queryset without the filter on is_matched
UnmatchedUnfiltered(table, s) == {i \in DOMAIN table : table[i].session = s}

\* .filter(is_matched=False)
Unmatched(table, s) == {i \in OfSession(table, s) : ~table[i].is_matched}

\* Meta.ordering = ['date', 'amount'] of LedgerRecord and BankRecord
OrderedBefore(a, b) ==
    \/ a.date < b.date
    \/ a.date = b.date /\ a.amount <= b.amount

\* The sequences in which the database may return the rows `ids` of `table`:
\* sorted by the Meta.ordering, rows the ordering does not separate in any order.
Orderings(table, ids) ==
    {q \in [1..Cardinality(ids) -> ids] :
        /\ \A i, j \in DOMAIN q : i # j => q[i] # q[j]
        /\ \A i, j \in DOMAIN q : i < j => OrderedBefore(table[q[i]], table[q[j]])}

(***************************************************************************)
(* The local state of a Celery task.                                       *)
(***************************************************************************)
Idle ==
    [name |-> "none", pc |-> "idle", session_id |-> 0, session |-> None,
     queue |-> <<>>, best_match |-> NoRecord, best_score |-> Zero, score |-> None,
     result |-> "none"]

\* the task has returned {"status": result}
Returned(t, result) ==
    [Idle EXCEPT !.name = t.name, !.session_id = t.session_id, !.result = result]

TaskOn(s) == {w \in Workers : task[w].pc # "idle" /\ task[w].session_id = s}

\* One task at a time runs on a session.
Sequential(s) == TaskOn(s) = {}

(***************************************************************************)
(* The cells of an uploaded file as pandas hands them to the row loop.  A  *)
(* text cell is a sequence of characters (a date text is a sequence of its *)
(* digit groups, names and separators); NaN is the value pandas gives a    *)
(* blank cell.  A numeric cell stands as the text str() returns for it.    *)
(***************************************************************************)
NaN == <<"NaN">>

\* pd.isna
isna(cell) == cell = NaN

\* str(): 'nan' for the float NaN
Str(cell) == IF cell = NaN THEN <<"n", "a", "n">> ELSE cell

\* the digit groups of the date texts drawn: value and number of digits
Numerals ==
    [t \in {"2024", "01", "02", "13", "20240101"} |->
        CASE t = "2024" -> [value |-> 2024, digits |-> 4]
          [] t = "01" -> [value |-> 1, digits |-> 2]
          [] t = "02" -> [value |-> 2, digits |-> 2]
          [] t = "13" -> [value |-> 13, digits |-> 2]
          [] t = "20240101" -> [value |-> 20240101, digits |-> 8]]

MonthNames == [t \in {"January"} |-> 1]
MonthAbbreviations == [t \in {"Jan"} |-> 1]

\* lines 408-419
formats ==
    << <<"%Y", "-", "%m", "-", "%d">>,
       <<"%m", "/", "%d", "/", "%Y">>,
       <<"%d", "/", "%m", "/", "%Y">>,
       <<"%m", "-", "%d", "-", "%Y">>,
       <<"%d", "-", "%m", "-", "%Y">>,
       <<"%Y", "/", "%m", "/", "%d">>,
       <<"%B", " ", "%d", ",", " ", "%Y">>,
       <<"%b", " ", "%d", ",", " ", "%Y">>,
       <<"%d", " ", "%B", " ", "%Y">>,
       <<"%d", " ", "%b", " ", "%Y">> >>

Directives == {"%Y", "%m", "%d", "%B", "%b"}

\* the value a directive reads from one group of the text, None when it does not
\* match
Field(directive, t) ==
    CASE directive = "%Y" ->
            IF t \in DOMAIN Numerals /\ Numerals[t].digits = 4
            THEN <<Numerals[t].value>> ELSE None
      [] directive = "%m" ->
            IF t \in DOMAIN Numerals /\ Numerals[t].digits <= 2
                 /\ Numerals[t].value \in 1..12
            THEN <<Numerals[t].value>> ELSE None
      [] directive = "%d" ->
            IF t \in DOMAIN Numerals /\ Numerals[t].digits <= 2
                 /\ Numerals[t].value \in 1..31
            THEN <<Numerals[t].value>> ELSE None
      [] directive = "%B" ->
            IF t \in DOMAIN MonthNames THEN <<MonthNames[t]>> ELSE None
      [] directive = "%b" ->
            IF t \in DOMAIN MonthAbbreviations THEN <<MonthAbbreviations[t]>> ELSE None

\* a date as the number of its day, counted from the last day of 2023; the texts
\* drawn lie in January and February 2024
DayNumber(year, month, day) == (year - 2024) * 366 + (month - 1) * 31 + day

\* datetime.strptime(date_str, fmt).date(): <<day number>>, None for ValueError
strptime(date_str, fmt) ==
    IF Len(date_str) # Len(fmt) THEN None
    ELSE IF \E i \in DOMAIN fmt :
               \/ fmt[i] \notin Directives /\ date_str[i] # fmt[i]
               \/ fmt[i] \in Directives /\ Field(fmt[i], date_str[i]) = None
         THEN None
         ELSE LET At(directives) ==
                      Field(fmt[CHOOSE i \in DOMAIN fmt : fmt[i] \in directives],
                            date_str[CHOOSE i \in DOMAIN fmt : fmt[i] \in directives])[1]
              IN  <<DayNumber(At({"%Y"}), At({"%m", "%B", "%b"}), At({"%d"}))>>

\* pd.to_datetime(date_str).date() on a text none of the formats reads: the compact
\* form YYYYMMDD is a date, a text that is no date raises
to_datetime(date_str) ==
    IF Len(date_str) = 1 /\ date_str[1] \in DOMAIN Numerals
          /\ Numerals[date_str[1]].digits = 8
    THEN LET v == Numerals[date_str[1]].value
         IN  <<DayNumber(v \div 10000, (v \div 100) % 100, v % 100)>>
    ELSE None

RECURSIVE TryFormats(_, _)
TryFormats(date_str, i) ==
    IF i > Len(formats) THEN to_datetime(date_str)
    ELSE IF strptime(date_str, formats[i]) # None THEN strptime(date_str, formats[i])
         ELSE TryFormats(date_str, i + 1)

\* parse_date: <<day number>> or None
parse_date(date_str) ==
    IF isna(date_str) \/ date_str = <<>> THEN None
    ELSE TryFormats(Strip(date_str), 1)

(***************************************************************************)
(* parse_amount.  A Decimal is [finite, cents]: a number of cents, an       *)
(* infinity or a signaling NaN.  The amount texts drawn carry at most two  *)
(* decimals.                                                               *)
(***************************************************************************)
Finite(cents) == [finite |-> TRUE, cents |-> cents]
Infinity == [finite |-> FALSE, cents |-> 0]
sNaN == [finite |-> FALSE, cents |-> 2]
InvalidOperation == [finite |-> FALSE, cents |-> 1]

DigitValue ==
    [c \in Digits |->
        CASE c = "0" -> 0 [] c = "1" -> 1 [] c = "2" -> 2 [] c = "3" -> 3
          [] c = "4" -> 4 [] c = "5" -> 5 [] c = "6" -> 6 [] c = "7" -> 7
          [] c = "8" -> 8 [] c = "9" -> 9]

IsDigits(s) == \A i \in DOMAIN s : s[i] \in Digits

RECURSIVE Number(_)
Number(s) == IF s = <<>> THEN 0 ELSE 10 * Number(SubSeq(s, 1, Len(s) - 1)) + DigitValue[s[Len(s)]]

\* Decimal(text) of an unsigned text
Unsigned(s) ==
    LET dots == {i \in DOMAIN s : s[i] = "."}
    IN  IF LowerStr(s) \in {<<"i", "n", "f">>, <<"i", "n", "f", "i", "n", "i", "t", "y">>}
        THEN Infinity
        ELSE IF LowerStr(s) = <<"s", "n", "a", "n">>
        THEN sNaN
        ELSE IF dots = {}
        THEN IF s # <<>> /\ IsDigits(s) THEN Finite(100 * Number(s)) ELSE InvalidOperation
        ELSE LET dot == CHOOSE i \in dots : TRUE
                 int == SubSeq(s, 1, dot - 1)
                 frac == SubSeq(s, dot + 1, Len(s))
             IN  IF /\ Cardinality(dots) = 1
                    /\ IsDigits(int) /\ IsDigits(frac)
                    /\ Len(int) + Len(frac) > 0
                    /\ Len(frac) <= 2
                 THEN Finite(100 * Number(int)
                             + (IF Len(frac) = 1 THEN 10 ELSE 1) * Number(frac))
                 ELSE InvalidOperation

\* Decimal(text): the value, InvalidOperation when the text is no number
DecimalOf(s) ==
    IF s # <<>> /\ s[1] \in {"-", "+"}
    THEN LET d == Unsigned(Tail(s))
         IN  IF d.finite /\ s[1] = "-" THEN Finite(-d.cents) ELSE d
    ELSE Unsigned(s)

\* line 446: the currency symbols and the thousands separator that re.sub removes,
\* of the characters drawn
CurrencySymbols == {"$", ","}

\* lines 449-450
Parentheses(s) ==
    IF s # <<>> /\ s[1] = "(" /\ s[Len(s)] = ")"
    THEN <<"-">> \o SubSeq(s, 2, Len(s) - 1)
    ELSE s

parse_amount(amount_str) ==
    IF isna(amount_str) \/ amount_str = <<>> THEN Finite(0)
    ELSE LET stripped == SelectSeq(Strip(amount_str),
                                   LAMBDA c : c \notin CurrencySymbols /\ ~IsSpace(c))
             d == DecimalOf(Parentheses(stripped))
         IN  IF d = InvalidOperation THEN Finite(0) ELSE d

(***************************************************************************)
(* The uploaded files: the rows of the data frame, each with its date,     *)
(* amount and description cell.                                            *)
(***************************************************************************)
Row(date, amount, description) ==
    [date |-> date, amount |-> amount, description |-> description]

Jan1 == <<"2024", "-", "01", "-", "01">>
Jan2 == <<"2024", "-", "01", "-", "02">>
Amount100 == <<"1", ".", "0", "0">>
Amount101 == <<"1", ".", "0", "1">>

DescAbC == <<"A", "b", " ", "c">>
DescAb == <<" ", "a", "b", ".">>

LedgerRows ==
    {Row(Jan1, Amount100, DescAbC), Row(Jan1, Amount100, DescAb),
     Row(Jan2, Amount101, DescAbC)}

BankRows ==
    {Row(Jan1, Amount100, DescAbC), Row(Jan1, Amount100, DescAb),
     Row(Jan2, Amount100, DescAbC)}

\* The files drawn: up to MaxRows different rows, in any order.
Files(rows) ==
    UNION {{f \in [1..n -> rows] : \A i, j \in 1..n : i # j => f[i] # f[j]} :
           n \in 0..MaxRows}

Tolerances == {<<1, 1>>}

\* mutant: the records are numbered as they are appended
RECURSIVE ParseRowsRenumbered(_, _, _)
ParseRowsRenumbered(s, file, i) ==
    IF i > Len(file) THEN <<>>
    ELSE LET date_value == parse_date(file[i].date)
             amount_value == parse_amount(file[i].amount)
             description_value == Strip(Str(file[i].description))
             before == ParseRowsRenumbered(s, SubSeq(file, 1, i - 1), 1)
         IN  (IF /\ date_value # None
                 /\ amount_value \notin {sNaN, Finite(0)}
                 /\ description_value # <<>>
              THEN <<NewRecord(s, date_value[1], description_value, amount_value,
                               Len(before) + 1)>>
              ELSE <<>>)
             \o ParseRowsRenumbered(s, file, i + 1)

\* lines 149-172: the records that the row loop of process_ledger_file /
\* process_bank_statement_file appends, for session s; row_number is index + 1.
\* The comparison of a signaling NaN with 0 raises, and the row is skipped by the
\* handler of lines 170-172.
RECURSIVE ParseRows(_, _, _)
ParseRows(s, file, i) ==
    IF i > Len(file) THEN <<>>
    ELSE LET date_value == parse_date(file[i].date)
             amount_value == parse_amount(file[i].amount)
             description_value == Strip(Str(file[i].description))
         IN  (IF /\ date_value # None
                 /\ amount_value \notin {sNaN, Finite(0)}
                 /\ description_value # <<>>
              THEN <<NewRecord(s, date_value[1], description_value, amount_value, i)>>
              ELSE <<>>)
             \o ParseRows(s, file, i + 1)

\* bulk_create raises on a Decimal that is no number
Storable(records) == \A i \in DOMAIN records : records[i].amount.finite

\* lines 175-176: the rows that bulk_create inserts; the DecimalField holds cents
bulk_create(records) ==
    [i \in DOMAIN records |-> [records[i] EXCEPT !.amount = records[i].amount.cents]]

(***************************************************************************)
(* process_reconciliation_files                                            *)
(***************************************************************************)
SetTask(w, t) == task' = [task EXCEPT ![w] = t]

\* session.save(): every field of the in-memory object is written
Save(s, obj) == session' = [session EXCEPT ![s] = obj]

\* the task is picked up and loads its session (line 24)
StartProcess(w, s) ==
    /\ task[w].pc = "idle"
    /\ ~dispatched[s].process
    /\ dispatched' = [dispatched EXCEPT ![s].process = TRUE]
    /\ SetTask(w, [Idle EXCEPT !.name = "process", !.pc = "p_status",
                               !.session_id = s, !.session = session[s]])
    /\ UNCHANGED <<db, call>>

\* lines 25-26
ProcessSetStatus(w) ==
    /\ task[w].pc = "p_status"
    /\ LET obj == [task[w].session EXCEPT !.status = "processing"]
       IN  /\ Save(task[w].session_id, obj)
           /\ SetTask(w, [task[w] EXCEPT !.pc = "p_ledger", !.session = obj])
    /\ UNCHANGED <<ledger_records, bank_records, matches, exceptions, dispatched, call>>

\* mutant: the handler returns the error without the failure transition
ProcessHandlerSilent(w) ==
    /\ UNCHANGED session
    /\ SetTask(w, Returned(task[w], "error"))

\* lines 52-59: the handler of an exception raised with the session loaded
ProcessHandler(w) ==
    /\ Save(task[w].session_id, [task[w].session EXCEPT !.status = "failed"])
    /\ SetTask(w, Returned(task[w], "error"))

\* lines 29-30: process_ledger_file; an exception of bulk_create leaves the row
\* loop's function and reaches the handler of the task
ProcessLedger(w) ==
    /\ task[w].pc = "p_ledger"
    /\ LET s == task[w].session_id
           records == ParseRows(s, task[w].session.ledger_file, 1)
       IN  IF Storable(records)
           THEN /\ ledger_records' = ledger_records \o bulk_create(records)
                /\ SetTask(w, [task[w] EXCEPT !.pc = "p_bank",
                                              !.session.total_ledger_records = Len(records)])
                /\ UNCHANGED session
           ELSE /\ ProcessHandler(w)
                /\ UNCHANGED ledger_records
    /\ UNCHANGED <<bank_records, matches, exceptions, dispatched, call>>

\* lines 33-34: process_bank_statement_file
ProcessBank(w) ==
    /\ task[w].pc = "p_bank"
    /\ LET s == task[w].session_id
           records == ParseRows(s, task[w].session.bank_statement_file, 1)
       IN  IF Storable(records)
           THEN /\ bank_records' = bank_records \o bulk_create(records)
                /\ SetTask(w, [task[w] EXCEPT !.pc = "p_save",
                                              !.session.total_bank_records = Len(records)])
                /\ UNCHANGED session
           ELSE /\ ProcessHandler(w)
                /\ UNCHANGED bank_records
    /\ UNCHANGED <<ledger_records, matches, exceptions, dispatched, call>>

\* lines 36-46
ProcessSave(w) ==
    /\ task[w].pc = "p_save"
    /\ Save(task[w].session_id, task[w].session)
    /\ SetTask(w, Returned(task[w], "success"))
    /\ UNCHANGED <<ledger_records, bank_records, matches, exceptions, dispatched, call>>

\* lines 52-59: the operation the task is at raises
ProcessFail(w) ==
    /\ task[w].pc \in {"p_status", "p_ledger", "p_bank", "p_save"}
    /\ ProcessHandler(w)
    /\ UNCHANGED <<ledger_records, bank_records, matches, exceptions, dispatched, call>>

(***************************************************************************)
(* start_reconciliation_matching                                           *)
(***************************************************************************)
\* the task is picked up and loads its session (line 67)
StartMatching(w, s) ==
    /\ task[w].pc = "idle"
    /\ dispatched[s].matching < MaxRuns
    /\ dispatched' = [dispatched EXCEPT ![s].matching = @ + 1]
    /\ SetTask(w, [Idle EXCEPT !.name = "matching", !.pc = "m_status",
                               !.session_id = s, !.session = session[s]])
    /\ UNCHANGED <<db, call>>

\* lines 69-71
MatchSetStatus(w) ==
    /\ task[w].pc = "m_status"
    /\ IF task[w].session.status # "processing"
       THEN LET obj == [task[w].session EXCEPT !.status = "processing"]
            IN  /\ Save(task[w].session_id, obj)
                /\ SetTask(w, [task[w] EXCEPT !.pc = "m_ledger", !.session = obj])
       ELSE /\ SetTask(w, [task[w] EXCEPT !.pc = "m_ledger"])
            /\ UNCHANGED session
    /\ UNCHANGED <<ledger_records, bank_records, matches, exceptions, dispatched, call>>

\* where the loop of perform_transaction_matching goes with `queue` left
LoopPc(queue) == IF queue = <<>> THEN "e_ledger" ELSE "m_scan"

\* lines 74, 253: the queryset of unmatched ledger records is evaluated once,
\* when the loop over it starts
MatchFetchLedger(w) ==
    /\ task[w].pc = "m_ledger"
    /\ \E q \in Orderings(ledger_records, Unmatched(ledger_records, task[w].session_id)) :
          SetTask(w, [task[w] EXCEPT !.queue = q, !.pc = LoopPc(q)])
    /\ UNCHANGED <<db, dispatched, call>>

\* mutant: the best score is kept without the confidence floor
RECURSIVE ScanBanksNoFloor(_, _, _, _, _, _)
ScanBanksNoFloor(ledger_record, order, i, tolerances, best, score) ==
    IF i > Len(order) THEN [best_match |-> best[1], best_score |-> best[2], score |-> score]
    ELSE LET s == calculate_match_score(ledger_record, bank_records[order[i]],
                                        tolerances[1], tolerances[2])
         IN  IF RLt(best[2], s)
             THEN ScanBanksNoFloor(ledger_record, order, i + 1, tolerances,
                                   <<order[i], s>>, s)
             ELSE ScanBanksNoFloor(ledger_record, order, i + 1, tolerances, best, s)

\* mutant: a bank record with an equal score replaces the best
RECURSIVE ScanBanksLastBest(_, _, _, _, _, _)
ScanBanksLastBest(ledger_record, order, i, tolerances, best, score) ==
    IF i > Len(order) THEN [best_match |-> best[1], best_score |-> best[2], score |-> score]
    ELSE LET s == calculate_match_score(ledger_record, bank_records[order[i]],
                                        tolerances[1], tolerances[2])
         IN  IF RLe(best[2], s) /\ RLe(MinConfidence, s)
             THEN ScanBanksLastBest(ledger_record, order, i + 1, tolerances,
                                    <<order[i], s>>, s)
             ELSE ScanBanksLastBest(ledger_record, order, i + 1, tolerances, best, s)

\* mutant: the first bank record at or above the floor is kept
RECURSIVE ScanBanksFirstFit(_, _, _, _, _, _)
ScanBanksFirstFit(ledger_record, order, i, tolerances, best, score) ==
    IF i > Len(order) THEN [best_match |-> best[1], best_score |-> best[2], score |-> score]
    ELSE LET s == calculate_match_score(ledger_record, bank_records[order[i]],
                                        tolerances[1], tolerances[2])
         IN  IF best[1] = NoRecord /\ RLe(MinConfidence, s)
             THEN ScanBanksFirstFit(ledger_record, order, i + 1, tolerances,
                                    <<order[i], s>>, s)
             ELSE ScanBanksFirstFit(ledger_record, order, i + 1, tolerances, best, s)

\* lines 254-268: the inner loop over the bank records `order[i..]`, from the
\* values the loop variables have before bank record order[i]
RECURSIVE ScanBanks(_, _, _, _, _, _)
ScanBanks(ledger_record, order, i, tolerances, best, score) ==
    IF i > Len(order) THEN [best_match |-> best[1], best_score |-> best[2], score |-> score]
    ELSE LET s == calculate_match_score(ledger_record, bank_records[order[i]],
                                        tolerances[1], tolerances[2])
         IN  IF RLt(best[2], s) /\ RLe(MinConfidence, s)
             THEN ScanBanks(ledger_record, order, i + 1, tolerances, <<order[i], s>>, s)
             ELSE ScanBanks(ledger_record, order, i + 1, tolerances, best, s)

\* lines 254-271: one ledger record against the bank records unmatched now
MatchScan(w) ==
    /\ task[w].pc = "m_scan"
    /\ LET s == task[w].session_id
           ledger_record == ledger_records[Head(task[w].queue)]
           tolerances == <<task[w].session.date_tolerance_days,
                           task[w].session.amount_tolerance>>
       IN  \E order \in Orderings(bank_records, Unmatched(bank_records, s)) :
              LET r == ScanBanks(ledger_record, order, 1, tolerances,
                                 <<NoRecord, Zero>>, task[w].score)
              IN  IF r.best_match # NoRecord
                  THEN SetTask(w, [task[w] EXCEPT !.pc = "m_create",
                                                  !.best_match = r.best_match,
                                                  !.best_score = r.best_score,
                                                  !.score = r.score])
                  ELSE SetTask(w, [task[w] EXCEPT !.pc = LoopPc(Tail(task[w].queue)),
                                                  !.queue = Tail(@),
                                                  !.best_match = NoRecord,
                                                  !.best_score = Zero,
                                                  !.score = r.score])
    /\ UNCHANGED <<db, dispatched, call>>

\* mutant: exact from the partial threshold on
MatchTypeExactFromPartial(score) ==
    IF RLe(PartialThreshold, score) THEN "exact" ELSE "partial"

\* lines 277-282
MatchType(score) ==
    IF RLe(ExactThreshold, score) THEN "exact"
    ELSE IF RLe(PartialThreshold, score) THEN "partial"
    ELSE "partial"

\* lines 273-292: TransactionMatch.objects.create
MatchCreate(w) ==
    /\ task[w].pc = "m_create"
    /\ LET ledger_record == ledger_records[Head(task[w].queue)]
           best_match == bank_records[task[w].best_match]
           date_diff == Abs(ledger_record.date - best_match.date)
           amount_diff == Abs(ledger_record.amount - best_match.amount)
           match_type == MatchType(task[w].score)
       IN  matches' = Append(matches,
                NewMatch(task[w].session_id, Head(task[w].queue), task[w].best_match,
                         match_type, task[w].best_score, date_diff, amount_diff))
    /\ SetTask(w, [task[w] EXCEPT !.pc = "m_mark_ledger"])
    /\ UNCHANGED <<session, ledger_records, bank_records, exceptions, dispatched, call>>

\* mutant: the fields are set on the ledger record and the record is not saved
MatchMarkLedgerUnsaved(w) ==
    /\ task[w].pc = "m_mark_ledger"
    /\ SetTask(w, [task[w] EXCEPT !.pc = "m_mark_bank"])
    /\ UNCHANGED <<db, dispatched, call>>

\* lines 295-297: ledger_record.save()
MatchMarkLedger(w) ==
    /\ task[w].pc = "m_mark_ledger"
    /\ ledger_records' = [ledger_records EXCEPT
            ![Head(task[w].queue)].is_matched = TRUE,
            ![Head(task[w].queue)].match_confidence = task[w].best_score]
    /\ SetTask(w, [task[w] EXCEPT !.pc = "m_mark_bank"])
    /\ UNCHANGED <<session, bank_records, matches, exceptions, dispatched, call>>

\* lines 299-303: best_match.save(), and on to the next ledger record
MatchMarkBank(w) ==
    /\ task[w].pc = "m_mark_bank"
    /\ bank_records' = [bank_records EXCEPT
            ![task[w].best_match].is_matched = TRUE,
            ![task[w].best_match].match_confidence = task[w].best_score]
    /\ SetTask(w, [task[w] EXCEPT !.pc = LoopPc(Tail(task[w].queue)),
                                  !.queue = Tail(@),
                                  !.best_match = NoRecord,
                                  !.best_score = Zero])
    /\ UNCHANGED <<session, ledger_records, matches, exceptions, dispatched, call>>

\* record.description[:100]
Truncate(description) ==
    SubSeq(description, 1,
           IF Len(description) < DescriptionLimit THEN Len(description)
           ELSE DescriptionLimit)

\* lines 365-366: the unmatched ledger records of create_exception_records
ExceptionsFetchLedger(w) ==
    /\ task[w].pc = "e_ledger"
    /\ \E q \in Orderings(ledger_records, Unmatched(ledger_records, task[w].session_id)) :
          SetTask(w, [task[w] EXCEPT !.queue = q,
                                     !.pc = IF q = <<>> THEN "e_bank" ELSE "e_create_ledger"])
    /\ UNCHANGED <<db, dispatched, call>>

\* mutant: a record that has an exception of an earlier run gets no second one
ExceptionsCreateLedgerOnce(w) ==
    /\ task[w].pc = "e_create_ledger"
    /\ LET record == Head(task[w].queue)
       IN  exceptions' =
              IF \E e \in DOMAIN exceptions : exceptions[e].ledger_record = record
              THEN exceptions
              ELSE Append(exceptions,
                      NewException(task[w].session_id, "unmatched_ledger", record, NoRecord,
                                   Truncate(ledger_records[record].description), "medium"))
    /\ SetTask(w, [task[w] EXCEPT !.queue = Tail(@),
                                  !.pc = IF Tail(task[w].queue) = <<>> THEN "e_bank"
                                         ELSE "e_create_ledger"])
    /\ UNCHANGED <<session, ledger_records, bank_records, matches, dispatched, call>>

\* lines 367-373
ExceptionsCreateLedger(w) ==
    /\ task[w].pc = "e_create_ledger"
    /\ LET record == Head(task[w].queue)
       IN  exceptions' = Append(exceptions,
                NewException(task[w].session_id, "unmatched_ledger", record, NoRecord,
                             Truncate(ledger_records[record].description), "medium"))
    /\ SetTask(w, [task[w] EXCEPT !.queue = Tail(@),
                                  !.pc = IF Tail(task[w].queue) = <<>> THEN "e_bank"
                                         ELSE "e_create_ledger"])
    /\ UNCHANGED <<session, ledger_records, bank_records, matches, dispatched, call>>

\* mutant: create_exception_records ends after the ledger records
ExceptionsSkipBank(w) ==
    /\ task[w].pc = "e_bank"
    /\ SetTask(w, [task[w] EXCEPT !.queue = <<>>, !.pc = "m_stats"])
    /\ UNCHANGED <<db, dispatched, call>>

\* lines 376-377: the unmatched bank records of create_exception_records
ExceptionsFetchBank(w) ==
    /\ task[w].pc = "e_bank"
    /\ \E q \in Orderings(bank_records, Unmatched(bank_records, task[w].session_id)) :
          SetTask(w, [task[w] EXCEPT !.queue = q,
                                     !.pc = IF q = <<>> THEN "m_stats" ELSE "e_create_bank"])
    /\ UNCHANGED <<db, dispatched, call>>

\* mutant: the loop over the bank records creates what the loop over the ledger
\* records creates
ExceptionsCreateBankAsLedger(w) ==
    /\ task[w].pc = "e_create_bank"
    /\ LET record == Head(task[w].queue)
       IN  exceptions' = Append(exceptions,
                NewException(task[w].session_id, "unmatched_ledger", record, NoRecord,
                             Truncate(bank_records[record].description), "medium"))
    /\ SetTask(w, [task[w] EXCEPT !.queue = Tail(@),
                                  !.pc = IF Tail(task[w].queue) = <<>> THEN "m_stats"
                                         ELSE "e_create_bank"])
    /\ UNCHANGED <<session, ledger_records, bank_records, matches, dispatched, call>>

\* lines 378-384
ExceptionsCreateBank(w) ==
    /\ task[w].pc = "e_create_bank"
    /\ LET record == Head(task[w].queue)
       IN  exceptions' = Append(exceptions,
                NewException(task[w].session_id, "unmatched_bank", NoRecord, record,
                             Truncate(bank_records[record].description), "medium"))
    /\ SetTask(w, [task[w] EXCEPT !.queue = Tail(@),
                                  !.pc = IF Tail(task[w].queue) = <<>> THEN "m_stats"
                                         ELSE "e_create_bank"])
    /\ UNCHANGED <<session, ledger_records, bank_records, matches, dispatched, call>>

\* mutant: the counters are left as the session was loaded
UpdateStatisticsSkipped(w) ==
    /\ task[w].pc = "m_stats"
    /\ SetTask(w, [task[w] EXCEPT !.pc = "m_complete"])
    /\ UNCHANGED <<db, dispatched, call>>

\* update_session_statistics
UpdateStatistics(w) ==
    /\ task[w].pc = "m_stats"
    /\ LET s == task[w].session_id
           obj == [task[w].session EXCEPT
                     !.matched_records = Cardinality(OfSession(matches, s)),
                     !.unmatched_ledger_records = Cardinality(Unmatched(ledger_records, s)),
                     !.unmatched_bank_records = Cardinality(Unmatched(bank_records, s))]
       IN  /\ Save(s, obj)
           /\ SetTask(w, [task[w] EXCEPT !.pc = "m_complete", !.session = obj])
    /\ UNCHANGED <<ledger_records, bank_records, matches, exceptions, dispatched, call>>

\* lines 89-91
MatchComplete(w) ==
    /\ task[w].pc = "m_complete"
    /\ Save(task[w].session_id,
            [task[w].session EXCEPT !.status = "completed", !.processed_at = TRUE])
    /\ SetTask(w, Returned(task[w], "success"))
    /\ UNCHANGED <<ledger_records, bank_records, matches, exceptions, dispatched, call>>

\* lines 106-113: the handler of an exception raised with the session loaded
MatchHandler(w) ==
    /\ Save(task[w].session_id, [task[w].session EXCEPT !.status = "failed"])
    /\ SetTask(w, Returned(task[w], "error"))

MatchPcs ==
    {"m_status", "m_ledger", "m_scan", "m_create", "m_mark_ledger", "m_mark_bank",
     "e_ledger", "e_create_ledger", "e_bank", "e_create_bank", "m_stats", "m_complete"}

\* lines 106-113: the operation the task is at raises
MatchFail(w) ==
    /\ task[w].pc \in MatchPcs
    /\ MatchHandler(w)
    /\ UNCHANGED <<ledger_records, bank_records, matches, exceptions, dispatched, call>>

(***************************************************************************)
(* The endpoints of reconciliation/views.py that create a session and      *)
(* start its matching.  `call` holds the response of the last request.     *)
(***************************************************************************)
\* the fields of ReconciliationSession (models.py:24-48)
SessionFields ==
    {"id", "created_by", "name", "description", "status", "ledger_file",
     "bank_statement_file", "date_tolerance_days", "amount_tolerance",
     "total_ledger_records", "total_bank_records", "matched_records",
     "unmatched_ledger_records", "unmatched_bank_records", "created_at",
     "updated_at", "processed_at"}

Response(view, status, session_id) ==
    [view |-> view, status |-> status, session_id |-> session_id]

\* FileUploadView.post on data that the serializer accepts.  objects.create raises
\* TypeError on a keyword that is no field of the model; the handler of line 48
\* answers 500 and nothing is stored.
FileUploadView_post(ledger_file, bank_statement_file, tol) ==
    /\ LET kwargs == {"user", "name", "ledger_file", "bank_statement_file",
                      "date_tolerance_days", "amount_tolerance", "status"}
       IN  IF kwargs \subseteq SessionFields
           THEN /\ session' = Append(session,
                        [NewSession(ledger_file, bank_statement_file, tol[1], tol[2])
                            EXCEPT !.status = "uploaded"])
                /\ dispatched' = Append(dispatched, [process |-> FALSE, matching |-> 0])
                /\ call' = Response("upload", 201, Len(session) + 1)
           ELSE /\ call' = Response("upload", 500, NoRecord)
                /\ UNCHANGED <<session, dispatched>>
    /\ UNCHANGED <<ledger_records, bank_records, matches, exceptions, task>>

\* start_reconciliation.  The lookup raises FieldError on a keyword that is no field
\* of the model; the handler of line 103 answers 500.
start_reconciliation(session_id) ==
    /\ LET lookup == {"id", "user"}
       IN  IF ~(lookup \subseteq SessionFields)
           THEN /\ call' = Response("start_reconciliation", 500, session_id)
                /\ UNCHANGED session
           ELSE IF session[session_id].status # "processed"
           THEN /\ call' = Response("start_reconciliation", 400, session_id)
                /\ UNCHANGED session
           ELSE /\ session' = [session EXCEPT ![session_id].status = "reconciling"]
                /\ call' = Response("start_reconciliation", 200, session_id)
    /\ UNCHANGED <<ledger_records, bank_records, matches, exceptions, task, dispatched>>

(***************************************************************************)
(* The reconciliation of one session, one task at a time.                  *)
(***************************************************************************)
InitTables ==
    /\ ledger_records = <<>>
    /\ bank_records = <<>>
    /\ matches = <<>>
    /\ exceptions = <<>>

Init ==
    /\ \E lf \in Files(LedgerRows), bf \in Files(BankRows), tol \in Tolerances :
          session = [s \in {1} |-> NewSession(lf, bf, tol[1], tol[2])]
    /\ InitTables
    /\ task = [w \in {1} |-> Idle]
    /\ dispatched = [s \in {1} |-> [process |-> FALSE, matching |-> 0]]
    /\ call = None

Next ==
    \/ \E w \in Workers, s \in Sessions : Sequential(s) /\ StartProcess(w, s)
    \/ \E w \in Workers : ProcessSetStatus(w)
    \/ \E w \in Workers : ProcessLedger(w)
    \/ \E w \in Workers : ProcessBank(w)
    \/ \E w \in Workers : ProcessSave(w)
    \/ \E w \in Workers : ProcessFail(w)
    \/ \E w \in Workers, s \in Sessions : Sequential(s) /\ StartMatching(w, s)
    \/ \E w \in Workers : MatchSetStatus(w)
    \/ \E w \in Workers : MatchFetchLedger(w)
    \/ \E w \in Workers : MatchScan(w)
    \/ \E w \in Workers : MatchCreate(w)
    \/ \E w \in Workers : MatchMarkLedger(w)
    \/ \E w \in Workers : MatchMarkBank(w)
    \/ \E w \in Workers : ExceptionsFetchLedger(w)
    \/ \E w \in Workers : ExceptionsCreateLedger(w)
    \/ \E w \in Workers : ExceptionsFetchBank(w)
    \/ \E w \in Workers : ExceptionsCreateBank(w)
    \/ \E w \in Workers : UpdateStatistics(w)
    \/ \E w \in Workers : MatchComplete(w)
    \/ \E w \in Workers : MatchFail(w)

Spec == Init /\ [][Next]_vars

(***************************************************************************)
(* Two sessions uploaded with the same files and tolerances, each          *)
(* reconciled by tasks that run to their end.                              *)
(***************************************************************************)
InitPair ==
    /\ \E lf \in Files(LedgerRows), bf \in Files(BankRows), tol \in Tolerances :
          session = [s \in {1, 2} |-> NewSession(lf, bf, tol[1], tol[2])]
    /\ InitTables
    /\ task = [w \in {1} |-> Idle]
    /\ dispatched = [s \in {1, 2} |-> [process |-> FALSE, matching |-> 0]]
    /\ call = None

NextPair ==
    \/ \E w \in Workers, s \in Sessions : Sequential(s) /\ StartProcess(w, s)
    \/ \E w \in Workers : ProcessSetStatus(w)
    \/ \E w \in Workers : ProcessLedger(w)
    \/ \E w \in Workers : ProcessBank(w)
    \/ \E w \in Workers : ProcessSave(w)
    \/ \E w \in Workers, s \in Sessions :
          Sequential(s) /\ dispatched[s].process /\ StartMatching(w, s)
    \/ \E w \in Workers : MatchSetStatus(w)
    \/ \E w \in Workers : MatchFetchLedger(w)
    \/ \E w \in Workers : MatchScan(w)
    \/ \E w \in Workers : MatchCreate(w)
    \/ \E w \in Workers : MatchMarkLedger(w)
    \/ \E w \in Workers : MatchMarkBank(w)
    \/ \E w \in Workers : ExceptionsFetchLedger(w)
    \/ \E w \in Workers : ExceptionsCreateLedger(w)
    \/ \E w \in Workers : ExceptionsFetchBank(w)
    \/ \E w \in Workers : ExceptionsCreateBank(w)
    \/ \E w \in Workers : UpdateStatistics(w)
    \/ \E w \in Workers : MatchComplete(w)

SpecPair == InitPair /\ [][NextPair]_vars

(***************************************************************************)
(* One session, processed and then matched up to MaxRuns times, every task *)
(* running to its end.                                                     *)
(***************************************************************************)
SpecRuns == Init /\ [][NextPair]_vars

(***************************************************************************)
(* One session whose files hold rows that lie further apart than the       *)
(* tolerances, in date or in amount; processed and then matched up to      *)
(* MaxRuns times, every task running to its end.                           *)
(***************************************************************************)
Jan13 == <<"2024", "-", "01", "-", "13">>
Amount5000 == <<"5", "0", ".", "0", "0">>

FarLedgerRows ==
    {Row(Jan1, Amount100, DescAbC), Row(Jan1, Amount5000, DescAbC),
     Row(Jan2, Amount101, DescAbC)}

FarBankRows ==
    {Row(Jan1, Amount100, DescAbC), Row(Jan13, Amount100, DescAbC),
     Row(Jan1, Amount5000, DescAb)}

InitFar ==
    /\ \E lf \in Files(FarLedgerRows), bf \in Files(FarBankRows), tol \in Tolerances :
          session = [s \in {1} |-> NewSession(lf, bf, tol[1], tol[2])]
    /\ InitTables
    /\ task = [w \in {1} |-> Idle]
    /\ dispatched = [s \in {1} |-> [process |-> FALSE, matching |-> 0]]
    /\ call = None

SpecFar == InitFar /\ [][NextPair]_vars

(***************************************************************************)
(* One session, its tasks run one at a time, with the requests to the      *)
(* endpoints that upload a session and start its matching.                 *)
(***************************************************************************)
\* the uploads drawn: files of at most one row
Uploads(rows) == {f \in Files(rows) : Len(f) <= 1}

NextApi ==
    \/ \E lf \in Uploads(LedgerRows), bf \in Uploads(BankRows), tol \in Tolerances :
          FileUploadView_post(lf, bf, tol)
    \/ \E s \in Sessions : start_reconciliation(s)
    \/ \E w \in Workers, s \in Sessions : Sequential(s) /\ StartProcess(w, s)
    \/ \E w \in Workers : ProcessSetStatus(w)
    \/ \E w \in Workers : ProcessLedger(w)
    \/ \E w \in Workers : ProcessBank(w)
    \/ \E w \in Workers : ProcessSave(w)
    \/ \E w \in Workers : ProcessFail(w)
    \/ \E w \in Workers, s \in Sessions : Sequential(s) /\ StartMatching(w, s)
    \/ \E w \in Workers : MatchSetStatus(w)
    \/ \E w \in Workers : MatchFetchLedger(w)
    \/ \E w \in Workers : MatchScan(w)
    \/ \E w \in Workers : MatchCreate(w)
    \/ \E w \in Workers : MatchMarkLedger(w)
    \/ \E w \in Workers : MatchMarkBank(w)
    \/ \E w \in Workers : ExceptionsFetchLedger(w)
    \/ \E w \in Workers : ExceptionsCreateLedger(w)
    \/ \E w \in Workers : ExceptionsFetchBank(w)
    \/ \E w \in Workers : ExceptionsCreateBank(w)
    \/ \E w \in Workers : UpdateStatistics(w)
    \/ \E w \in Workers : MatchComplete(w)
    \/ \E w \in Workers : MatchFail(w)

SpecApi == Init /\ [][NextApi]_vars

(***************************************************************************)
(* One session, processed and then matched by tasks that are dispatched    *)
(* without waiting for one another and run on two workers, each to its     *)
(* end.                                                                    *)
(***************************************************************************)
InitRace ==
    /\ \E lf \in Files(LedgerRows), bf \in Files(BankRows), tol \in Tolerances :
          session = [s \in {1} |-> NewSession(lf, bf, tol[1], tol[2])]
    /\ InitTables
    /\ task = [w \in {1, 2} |-> Idle]
    /\ dispatched = [s \in {1} |-> [process |-> FALSE, matching |-> 0]]
    /\ call = None

\* process_reconciliation_files has been dispatched for session s and is not running
Normalized(s) ==
    /\ dispatched[s].process
    /\ \A w \in TaskOn(s) : task[w].name # "process"

\* The workers are interchangeable: the n-th matching task is taken by worker n.
NextRace ==
    \/ \E s \in Sessions : start_reconciliation(s)
    \/ \E w \in Workers, s \in Sessions : Sequential(s) /\ StartProcess(w, s)
    \/ \E w \in Workers : ProcessSetStatus(w)
    \/ \E w \in Workers : ProcessLedger(w)
    \/ \E w \in Workers : ProcessBank(w)
    \/ \E w \in Workers : ProcessSave(w)
    \/ \E w \in Workers, s \in Sessions :
          /\ Normalized(s)
          /\ w = dispatched[s].matching + 1
          /\ StartMatching(w, s)
    \/ \E w \in Workers : MatchSetStatus(w)
    \/ \E w \in Workers : MatchFetchLedger(w)
    \/ \E w \in Workers : MatchScan(w)
    \/ \E w \in Workers : MatchCreate(w)
    \/ \E w \in Workers : MatchMarkLedger(w)
    \/ \E w \in Workers : MatchMarkBank(w)
    \/ \E w \in Workers : ExceptionsFetchLedger(w)
    \/ \E w \in Workers : ExceptionsCreateLedger(w)
    \/ \E w \in Workers : ExceptionsFetchBank(w)
    \/ \E w \in Workers : ExceptionsCreateBank(w)
    \/ \E w \in Workers : UpdateStatistics(w)
    \/ \E w \in Workers : MatchComplete(w)

SpecRace == InitRace /\ [][NextRace]_vars

(***************************************************************************)
(* Two sessions, each processed and then matched once, their tasks running  *)
(* at the same time on two workers.  The second session is uploaded with   *)
(* the first row of the other's bank statement as its ledger and the first *)
(* row of the other's ledger as its bank statement.                        *)
(***************************************************************************)
FirstRow(file) == IF file = <<>> THEN <<>> ELSE <<file[1]>>

InitTwo ==
    /\ \E lf \in Files(LedgerRows), bf \in Files(BankRows), tol \in Tolerances :
          session = <<NewSession(lf, bf, tol[1], tol[2]),
                      NewSession(FirstRow(bf), FirstRow(lf), tol[1], tol[2])>>
    /\ InitTables
    /\ task = [w \in {1, 2} |-> Idle]
    /\ dispatched = [s \in {1, 2} |-> [process |-> FALSE, matching |-> 0]]
    /\ call = None

\* The workers are interchangeable: the tasks of session s are taken by worker s.
NextTwo ==
    \/ \E w \in Workers, s \in Sessions : w = s /\ Sequential(s) /\ StartProcess(w, s)
    \/ \E w \in Workers : ProcessSetStatus(w)
    \/ \E w \in Workers : ProcessLedger(w)
    \/ \E w \in Workers : ProcessBank(w)
    \/ \E w \in Workers : ProcessSave(w)
    \/ \E w \in Workers, s \in Sessions :
          /\ w = s
          /\ Sequential(s)
          /\ dispatched[s].process
          /\ dispatched[s].matching = 0
          /\ StartMatching(w, s)
    \/ \E w \in Workers : MatchSetStatus(w)
    \/ \E w \in Workers : MatchFetchLedger(w)
    \/ \E w \in Workers : MatchScan(w)
    \/ \E w \in Workers : MatchCreate(w)
    \/ \E w \in Workers : MatchMarkLedger(w)
    \/ \E w \in Workers : MatchMarkBank(w)
    \/ \E w \in Workers : ExceptionsFetchLedger(w)
    \/ \E w \in Workers : ExceptionsCreateLedger(w)
    \/ \E w \in Workers : ExceptionsFetchBank(w)
    \/ \E w \in Workers : ExceptionsCreateBank(w)
    \/ \E w \in Workers : UpdateStatistics(w)
    \/ \E w \in Workers : MatchComplete(w)

SpecTwo == InitTwo /\ [][NextTwo]_vars

(***************************************************************************)
(* process_reconciliation_files on the files of one session, every         *)
(* operation other than the reading of the rows succeeding.                *)
(***************************************************************************)
Abc == <<"a", "b", "c">>

DateCells ==
    {Jan1, NaN, Abc, <<"01", "/", "02", "/", "2024">>, <<"13", "/", "01", "/", "2024">>,
     <<"20240101">>}

AmountCells ==
    {Amount100, NaN, Abc, <<"0", ".", "0", "0">>, <<"i", "n", "f">>,
     <<"s", "n", "a", "n">>, <<"(", "1", ".", "0", "0", ")">>,
     <<"$", "1", ",", "2", "3", "4", ".", "5", "6">>}

DescriptionCells == {DescAbC, NaN, <<" ">>, DescAb}

\* the rows drawn: a row that is kept, with each of its cells replaced in turn
FileRows ==
    {Row(d, Amount100, DescAbC) : d \in DateCells}
    \cup {Row(Jan1, a, DescAbC) : a \in AmountCells}
    \cup {Row(Jan1, Amount100, d) : d \in DescriptionCells}

InitFiles ==
    /\ \E lf \in Files(FileRows), bf \in {f \in Files(FileRows) : Len(f) <= 1},
          tol \in Tolerances :
          session = [s \in {1} |-> NewSession(lf, bf, tol[1], tol[2])]
    /\ InitTables
    /\ task = [w \in {1} |-> Idle]
    /\ dispatched = [s \in {1} |-> [process |-> FALSE, matching |-> 0]]
    /\ call = None

NextFiles ==
    \/ \E w \in Workers, s \in Sessions : Sequential(s) /\ StartProcess(w, s)
    \/ \E w \in Workers : ProcessSetStatus(w)
    \/ \E w \in Workers : ProcessLedger(w)
    \/ \E w \in Workers : ProcessBank(w)
    \/ \E w \in Workers : ProcessSave(w)

SpecFiles == InitFiles /\ [][NextFiles]_vars

(***************************************************************************)
(* calculate_match_score applied to one ledger and one bank record of a    *)
(* session.  `call` holds the arguments as they were passed and the value  *)
(* returned.                                                               *)
(***************************************************************************)
DescChars == {"a", "B", " ", "."}

Descriptions == UNION {[1..n -> DescChars] : n \in 0..MaxDescLen}

OfficeSuppliesAbc ==
    <<"O", "f", "f", "i", "c", "e", " ", "S", "u", "p", "p", "l", "i", "e", "s", " ",
      "A", "B", "C">>

AbcOfficeSuppliesInc ==
    <<"A", "B", "C", " ", "O", "f", "f", "i", "c", "e", " ", "S", "u", "p", "p", "l",
      "i", "e", "s", " ", "I", "n", "c">>

\* calculate_match_score is about to be called on the two records with the
\* tolerances of their session
ScoreCall(l, b, date_tolerance_days, amount_tolerance) ==
    /\ session = <<NewSession(<<>>, <<>>, date_tolerance_days, amount_tolerance)>>
    /\ ledger_records = <<NewRecord(1, l.date, l.description, l.amount, 1)>>
    /\ bank_records = <<NewRecord(1, b.date, b.description, b.amount, 1)>>
    /\ call = [ledger_record |-> ledger_records[1],
               bank_record |-> bank_records[1],
               session |-> session[1],
               score |-> None]

\* the records and tolerances drawn: every date, amount and tolerance within the
\* bounds with a few descriptions; every pair of descriptions within the bound;
\* Scenario B of the specification
InitScore ==
    /\ \/ \E ld \in 0..MaxDay, bd \in 0..MaxDay,
             la \in -MaxCents..MaxCents, ba \in -MaxCents..MaxCents,
             ldesc \in {DescAbC, DescAb}, bdesc \in {DescAbC, DescAb, <<".">>},
             T \in 0..MaxTolDays, tol \in 0..MaxTolCents :
             ScoreCall(Row(ld, la, ldesc), Row(bd, ba, bdesc), T, tol)
       \/ \E d1 \in Descriptions, d2 \in Descriptions :
             ScoreCall(Row(1, 100, d1), Row(1, 100, d2), 0, 0)
       \/ ScoreCall(Row(10, 10000, OfficeSuppliesAbc), Row(12, 10000, AbcOfficeSuppliesInc),
                    3, 0)
    /\ matches = <<>>
    /\ exceptions = <<>>
    /\ task = <<>>
    /\ dispatched = <<>>

\* lines 259-264
CallScore ==
    /\ call.score = None
    /\ call' = [call EXCEPT !.score =
                    calculate_match_score(ledger_records[1], bank_records[1],
                                          session[1].date_tolerance_days,
                                          session[1].amount_tolerance)]
    /\ UNCHANGED <<db, task, dispatched>>

SpecScore == InitScore /\ [][CallScore]_vars

(***************************************************************************)
(* Properties.                                                             *)
(***************************************************************************)
Quiescent == \A w \in Workers : task[w].pc = "idle"

MatchesOf(s) == {matches[i] : i \in OfSession(matches, s)}
ExceptionsOf(s) == {exceptions[i] : i \in OfSession(exceptions, s)}

\* C1: after any sequence of sequential runs of start_reconciliation_matching, no
\* ledger record and no bank record is referenced by more than one automatically
\* created TransactionMatch.
C1_OneToOne ==
    Quiescent =>
        \A i, j \in DOMAIN matches :
            i # j => /\ matches[i].ledger_record # matches[j].ledger_record
                     /\ matches[i].bank_record # matches[j].bank_record

\* C2: every TransactionMatch created by perform_transaction_matching has
\* confidence_score >= 0.70.
C2_Threshold ==
    \A i \in DOMAIN matches : RLe(Rat(70, 100), matches[i].confidence_score)

\* a match below 1.0 exists next to a ledger record that found no bank record
C2_Witness ==
    /\ \E i \in DOMAIN matches : RLt(matches[i].confidence_score, One)
    /\ \E s \in Sessions :
          /\ session[s].status = "completed"
          /\ Unmatched(ledger_records, s) # {}
          /\ Unmatched(bank_records, s) # {}

\* C3: every TransactionMatch whose confidence_score is >= 0.95 has match_type
\* exact, whatever other bank records were compared against the ledger record.
C3_ExactAtHighConfidence ==
    \A i \in DOMAIN matches :
        RLe(Rat(95, 100), matches[i].confidence_score) => matches[i].match_type = "exact"

\* C4: every TransactionMatch whose confidence_score is < 0.95 has match_type
\* partial, and no match of the engine has type manual.
C4_PartialBelowExact ==
    \A i \in DOMAIN matches :
        /\ matches[i].match_type \in {"exact", "partial"}
        /\ RLt(matches[i].confidence_score, Rat(95, 100))
              => matches[i].match_type = "partial"

\* a partial match below 0.95 next to an exact one
C4_Witness ==
    /\ \E i \in DOMAIN matches :
          /\ RLt(matches[i].confidence_score, Rat(95, 100))
          /\ matches[i].match_type = "partial"
    /\ \E i \in DOMAIN matches : matches[i].match_type = "exact"

\* C5: when a run has ended with status completed, every ledger or bank record with
\* is_matched = false is referenced by at least one ReconciliationException of the
\* session, and every record with is_matched = true by none.
C5_Completeness ==
    \A s \in Sessions :
        session[s].status = "completed" =>
            /\ \A r \in OfSession(ledger_records, s) :
                  ledger_records[r].is_matched
                     <=> ~\E e \in ExceptionsOf(s) : e.ledger_record = r
            /\ \A r \in OfSession(bank_records, s) :
                  bank_records[r].is_matched
                     <=> ~\E e \in ExceptionsOf(s) : e.bank_record = r

\* a completed session with matched and unmatched records on both sides
C5_Witness ==
    \E s \in Sessions :
        /\ session[s].status = "completed"
        /\ Unmatched(ledger_records, s) # {}
        /\ Unmatched(bank_records, s) # {}
        /\ OfSession(ledger_records, s) # Unmatched(ledger_records, s)
        /\ OfSession(bank_records, s) # Unmatched(bank_records, s)

\* C6: whenever a session is completed after process_reconciliation_files followed
\* by start_reconciliation_matching, matched_records + unmatched_ledger_records =
\* total_ledger_records and matched_records + unmatched_bank_records =
\* total_bank_records.
C6_CounterConsistency ==
    \A s \in Sessions :
        (session[s].status = "completed" /\ dispatched[s].process) =>
            /\ session[s].matched_records + session[s].unmatched_ledger_records
                  = session[s].total_ledger_records
            /\ session[s].matched_records + session[s].unmatched_bank_records
                  = session[s].total_bank_records

\* what a run produced, by the rows of the files
MatchView(s) ==
    {<<ledger_records[m.ledger_record].row_number, bank_records[m.bank_record].row_number,
       m.match_type, m.confidence_score>> : m \in MatchesOf(s)}

ExceptionView(s) ==
    {<<e.exception_type,
       IF e.ledger_record # NoRecord THEN ledger_records[e.ledger_record].row_number
       ELSE bank_records[e.bank_record].row_number>> : e \in ExceptionsOf(s)}

FirstRunCompleted(s) ==
    /\ session[s].status = "completed"
    /\ dispatched[s].process
    /\ dispatched[s].matching = 1

\* C7: two runs of start_reconciliation_matching started from the same ledger
\* records, the same bank records (all unmatched) and the same tolerances produce
\* the same set of matches and the same set of exceptions.
C7_Deterministic ==
    (FirstRunCompleted(1) /\ FirstRunCompleted(2)) =>
        /\ MatchView(1) = MatchView(2)
        /\ ExceptionView(1) = ExceptionView(2)

Score(s, l, b) ==
    calculate_match_score(ledger_records[l], bank_records[b],
                          session[s].date_tolerance_days, session[s].amount_tolerance)

\* C8: when two unmatched ledger records both score >= 0.70 against the same single
\* bank record, the one with the lower row_number obtains the match and the other
\* stays unmatched and receives an unmatched_ledger exception.
C8_RowNumberOrder ==
    \A s \in Sessions :
        FirstRunCompleted(s) =>
            \A lo, hi \in OfSession(ledger_records, s), b \in OfSession(bank_records, s) :
                (/\ OfSession(ledger_records, s) = {lo, hi}
                 /\ OfSession(bank_records, s) = {b}
                 /\ ledger_records[lo].row_number < ledger_records[hi].row_number
                 /\ RLe(Rat(70, 100), Score(s, lo, b))
                 /\ RLe(Rat(70, 100), Score(s, hi, b)))
                => /\ \E m \in MatchesOf(s) : m.ledger_record = lo /\ m.bank_record = b
                   /\ ~ledger_records[hi].is_matched
                   /\ \E e \in ExceptionsOf(s) :
                         e.exception_type = "unmatched_ledger" /\ e.ledger_record = hi

\* C9: for all records and all tolerances >= 0, calculate_match_score returns a value
\* in [0, 1] and changes no field of either record or of the session.
C9_ScoreInUnitInterval ==
    call.score # None =>
        /\ RLe(Zero, call.score)
        /\ RLe(call.score, One)
        /\ ledger_records[1] = call.ledger_record
        /\ bank_records[1] = call.bank_record
        /\ session[1] = call.session

\* a score strictly inside (0, 1) that the date decay contributes to
C9_Witness ==
    /\ call.score # None
    /\ RLt(Zero, call.score)
    /\ RLt(call.score, One)
    /\ call.ledger_record.date # call.bank_record.date
    /\ Abs(call.ledger_record.date - call.bank_record.date)
          <= call.session.date_tolerance_days

\* the score as the specification states it
Jaccard(words1, words2) ==
    IF words1 = {} \/ words2 = {} THEN Zero
    ELSE Rat(Cardinality(words1 \cap words2), Cardinality(words1 \cup words2))

StatedScore(l, b, T, tol) ==
    LET d == Abs(l.date - b.date)
        a == Abs(l.amount - b.amount)
        D == IF d = 0 THEN Rat(3, 10)
             ELSE IF d <= T THEN Rat(3 * (T + 1 - d), 10 * (T + 1))
             ELSE Zero
        A == IF a = 0 THEN Rat(4, 10)
             ELSE IF a <= tol THEN Rat(4 * (tol + 1 - a), 10 * (tol + 1))
             ELSE Zero
        J == Jaccard(WordSet(l.description), WordSet(b.description))
        sum == RAdd(RAdd(D, A), Rat(3 * J[1], 10 * J[2]))
    IN  IF RLe(sum, One) THEN sum ELSE One

ScenarioB ==
    /\ call.ledger_record.description = OfficeSuppliesAbc
    /\ call.bank_record.description = AbcOfficeSuppliesInc

FlagKept(table, table2) ==
    \A r \in DOMAIN table :
        /\ r \in DOMAIN table2
        /\ table[r].is_matched =>
              /\ table2[r].is_matched
              /\ table2[r].match_confidence = table[r].match_confidence
        /\ (~table[r].is_matched /\ table2[r].is_matched) =>
              /\ table[r].match_confidence = None
              /\ table2[r].match_confidence # None

\* C11: across any sequence of matching runs on a session, no step of the engine
\* sets is_matched of a record back to false or rewrites the match_confidence of a
\* matched record; a step that sets is_matched sets match_confidence with it.
C11_MonotoneFlag ==
    [][FlagKept(ledger_records, ledger_records') /\ FlagKept(bank_records, bank_records')]_vars

\* a later run marks a bank record while another record of the session is matched
C11_Witness ==
    \E w \in Workers :
        /\ task[w].pc = "m_mark_bank"
        /\ dispatched[task[w].session_id].matching > 1
        /\ \E r \in OfSession(bank_records, task[w].session_id) :
              bank_records[r].is_matched /\ r # task[w].best_match

NothingPersisted(s) ==
    /\ OfSession(matches, s) = {}
    /\ OfSession(exceptions, s) = {}
    /\ \A r \in OfSession(ledger_records, s) :
          ~ledger_records[r].is_matched /\ ledger_records[r].match_confidence = None
    /\ \A r \in OfSession(bank_records, s) :
          ~bank_records[r].is_matched /\ bank_records[r].match_confidence = None

\* C13: a matching run is all-or-nothing: when start_reconciliation_matching ends
\* with the session in status failed, the stored matches, record flags and
\* exceptions equal those before the run (stated for the first run of a session,
\* before which there are none).
C13_AllOrNothing ==
    \A w \in Workers :
        (/\ task[w].pc = "idle"
         /\ task[w].name = "matching"
         /\ task[w].result = "error"
         /\ dispatched[task[w].session_id].matching = 1)
            => NothingPersisted(task[w].session_id)

\* C14: once a session is completed or failed, no step of the pipeline gives it
\* another status while its old records, matches and exceptions are in place; in
\* particular start_reconciliation_matching on a completed or failed session does
\* not put it back into processing.
C14_TerminalStatus ==
    [][\A s \in Sessions :
          (session[s].status \in {"completed", "failed"}
              /\ session'[s].status # session[s].status)
            => /\ OfSession(ledger_records', s) = {}
               /\ OfSession(bank_records', s) = {}
               /\ OfSession(matches', s) = {}
               /\ OfSession(exceptions', s) = {}]_vars

\* C15: in every state where a session's status is completed, processed_at is set,
\* matched_records is the number of TransactionMatch rows of the session, and
\* unmatched_ledger_records / unmatched_bank_records are the numbers of its records
\* with is_matched = false.
C15_CompletedAfterStatistics ==
    \A s \in Sessions :
        session[s].status = "completed" =>
            /\ session[s].processed_at
            /\ session[s].matched_records = Cardinality(OfSession(matches, s))
            /\ session[s].unmatched_ledger_records
                  = Cardinality(Unmatched(ledger_records, s))
            /\ session[s].unmatched_bank_records
                  = Cardinality(Unmatched(bank_records, s))

\* a completed session with a match and unmatched records on both sides
C15_Witness ==
    \E s \in Sessions :
        /\ session[s].status = "completed"
        /\ session[s].matched_records > 0
        /\ session[s].unmatched_ledger_records > 0
        /\ session[s].unmatched_bank_records > 0

\* process_reconciliation_files has returned for session s without an error
Processed(s) ==
    \E w \in Workers :
        /\ task[w].pc = "idle"
        /\ task[w].name = "process"
        /\ task[w].session_id = s
        /\ task[w].result = "success"

\* the row as the specification keeps it: a date, an amount that is a number other
\* than zero (a signaling NaN is none) and a description that is there and not blank
StatedKeep(row) ==
    /\ parse_date(row.date) # None
    /\ parse_amount(row.amount) \notin {Finite(0), sNaN}
    /\ row.amount # Abc
    /\ row.description # NaN
    /\ Strip(row.description) # <<>>

Emitted(table, s, i) == {r \in OfSession(table, s) : table[r].row_number = i}

\* C16: process_ledger_file and process_bank_statement_file emit a record for a
\* row if and only if its date parses, its amount parses to a non-zero value and
\* its description is non-empty after trimming; a row with a missing or blank
\* description cell, or with the amount text abc, is dropped.
C16_RowFilter ==
    \A s \in Sessions :
        Processed(s) =>
            /\ \A i \in DOMAIN session[s].ledger_file :
                  StatedKeep(session[s].ledger_file[i])
                     <=> Emitted(ledger_records, s, i) # {}
            /\ \A i \in DOMAIN session[s].bank_statement_file :
                  StatedKeep(session[s].bank_statement_file[i])
                     <=> Emitted(bank_records, s, i) # {}

\* what process_ledger_file stores for a file of the one row
Alone(s, row, i) ==
    {[r EXCEPT !.row_number = i] : r \in Range(bulk_create(ParseRows(s, <<row>>, 1)))}

\* C17: a failure in one row never aborts normalization: the task does not move the
\* session to failed because of a row, and the records emitted for a row are those
\* emitted for it without the other rows.
C17_RowErrorIsolated ==
    \A s \in Sessions :
        /\ session[s].status # "failed"
        /\ Processed(s) =>
              /\ \A i \in DOMAIN session[s].ledger_file :
                    {ledger_records[r] : r \in Emitted(ledger_records, s, i)}
                       = Alone(s, session[s].ledger_file[i], i)
              /\ \A i \in DOMAIN session[s].bank_statement_file :
                    {bank_records[r] : r \in Emitted(bank_records, s, i)}
                       = Alone(s, session[s].bank_statement_file[i], i)

\* the records of a session carry the positions of their rows, in increasing order
RowNumbered(table, s, file) ==
    /\ \A r \in OfSession(table, s) :
          /\ table[r].row_number \in DOMAIN file
          /\ table[r] \in Alone(s, file[table[r].row_number], table[r].row_number)
    /\ \A q, r \in OfSession(table, s) :
          q < r => table[q].row_number < table[r].row_number

\* C18: each record emitted by one normalization of a source carries the 1-based
\* position of its row; the records appear in strictly increasing row_number order,
\* and discarded rows leave gaps.
C18_RowNumber ==
    \A s \in Sessions :
        /\ RowNumbered(ledger_records, s, session[s].ledger_file)
        /\ RowNumbered(bank_records, s, session[s].bank_statement_file)

\* the first row of the ledger file was discarded and the second row is record 2
C18_Witness ==
    \E s \in Sessions :
        /\ Processed(s)
        /\ Emitted(ledger_records, s, 1) = {}
        /\ Emitted(ledger_records, s, 2) # {}

\* the matches that perform_transaction_matching can create for the ledger records
\* `queue` with the bank records `free` unmatched, after the matches `found`
RECURSIVE GreedyRuns(_, _, _, _, _)
GreedyRuns(s, queue, free, score, found) ==
    IF queue = <<>> THEN {found}
    ELSE UNION {
            LET r == ScanBanks(ledger_records[Head(queue)], order, 1,
                               <<session[s].date_tolerance_days, session[s].amount_tolerance>>,
                               <<NoRecord, Zero>>, score)
            IN  IF r.best_match # NoRecord
                THEN GreedyRuns(s, Tail(queue), free \ {r.best_match}, r.score,
                                found \cup {<<Head(queue), r.best_match,
                                              MatchType(r.score), r.best_score>>})
                ELSE GreedyRuns(s, Tail(queue), free, r.score, found)
            : order \in Orderings(bank_records, free)}

\* the sets of matches that a first run of start_reconciliation_matching on the
\* records of session s can end with when it runs alone
AloneMatchSets(s) ==
    UNION {GreedyRuns(s, q, {r \in DOMAIN bank_records : bank_records[r].session = s},
                      None, {}) :
           q \in Orderings(ledger_records,
                            {r \in DOMAIN ledger_records : ledger_records[r].session = s})}

\* session s has ended as a run of its tasks alone ends
AsAlone(s) ==
    LET L == {r \in DOMAIN ledger_records : ledger_records[r].session = s}
        B == {r \in DOMAIN bank_records : bank_records[r].session = s}
        M == {<<matches[i].ledger_record, matches[i].bank_record, matches[i].match_type,
                matches[i].confidence_score>> :
                  i \in {j \in DOMAIN matches : matches[j].session = s}}
        E == {i \in DOMAIN exceptions : exceptions[i].session = s}
    IN  /\ M \in AloneMatchSets(s)
        /\ Cardinality({j \in DOMAIN matches : matches[j].session = s}) = Cardinality(M)
        /\ \A l \in L :
              /\ ledger_records[l].is_matched <=> \E m \in M : m[1] = l
              /\ \A m \in M : m[1] = l => ledger_records[l].match_confidence = m[4]
              /\ Cardinality({e \in E : exceptions[e].ledger_record = l})
                    = IF ledger_records[l].is_matched THEN 0 ELSE 1
        /\ \A b \in B :
              /\ bank_records[b].is_matched <=> \E m \in M : m[2] = b
              /\ \A m \in M : m[2] = b => bank_records[b].match_confidence = m[4]
              /\ Cardinality({e \in E : exceptions[e].bank_record = b})
                    = IF bank_records[b].is_matched THEN 0 ELSE 1
        /\ \A e \in E : /\ exceptions[e].ledger_record \in L \cup {NoRecord}
                         /\ exceptions[e].bank_record \in B \cup {NoRecord}
        /\ session[s].total_ledger_records = Cardinality(L)
        /\ session[s].total_bank_records = Cardinality(B)
        /\ session[s].matched_records = Cardinality(M)
        /\ session[s].unmatched_ledger_records = Cardinality(L) - Cardinality(M)
        /\ session[s].unmatched_bank_records = Cardinality(B) - Cardinality(M)

\* the rows of session s in `table` are those in `table2`
SameRows(table, table2, s) ==
    /\ \A i \in DOMAIN table :
          table[i].session = s => i \in DOMAIN table2 /\ table2[i] = table[i]
    /\ \A i \in DOMAIN table2 : table2[i].session = s => i \in DOMAIN table

\* a step in which no task of session s moves
NoStepOf(s) ==
    \A w \in Workers :
        (task[w].session_id = s \/ task'[w].session_id = s) => task'[w] = task[w]

\* C19: under any interleaving of the tasks of two sessions, a task on one session
\* changes no record, match, exception, counter or status of the other, and each
\* session ends in a state that a run of its tasks alone ends in.
C19_SessionsIndependent ==
    /\ [](\A s \in Sessions :
             (session[s].status = "completed" /\ TaskOn(s) = {}) => AsAlone(s))
    /\ [][\A s \in Sessions :
             NoStepOf(s) =>
                /\ session'[s] = session[s]
                /\ SameRows(ledger_records, ledger_records', s)
                /\ SameRows(bank_records, bank_records', s)
                /\ SameRows(matches, matches', s)
                /\ SameRows(exceptions, exceptions', s)]_vars

\* both sessions are completed, and the second session's match was created between
\* two matches of the first
C19_Witness ==
    /\ \A s \in Sessions : session[s].status = "completed" /\ TaskOn(s) = {}
    /\ \E i, j, k \in DOMAIN matches :
          /\ i < j /\ j < k
          /\ matches[i].session = 1 /\ matches[j].session = 2 /\ matches[k].session = 1

\* C20: in every reachable state of a session, matched_records is at most
\* total_ledger_records and at most total_bank_records.
C20_MatchedWithinTotals ==
    \A s \in Sessions :
        /\ session[s].matched_records <= session[s].total_ledger_records
        /\ session[s].matched_records <= session[s].total_bank_records

\* the exceptions of session s that reference ledger record l and bank record b
ExceptionsFor(s, l, b) ==
    {e \in OfSession(exceptions, s) :
        exceptions[e].ledger_record = l /\ exceptions[e].bank_record = b}

\* C21: after k completed runs of start_reconciliation_matching on a session, no
\* exception cleared in between, every record that is still unmatched is referenced
\* by exactly k exceptions, of type unmatched_ledger for a ledger record and
\* unmatched_bank for a bank record.
C21_ExceptionsPerRun ==
    \A s \in Sessions :
        (TaskOn(s) = {} /\ session[s].status = "completed") =>
            /\ \A r \in Unmatched(ledger_records, s) :
                  /\ Cardinality({e \in OfSession(exceptions, s) :
                                     exceptions[e].ledger_record = r})
                        = dispatched[s].matching
                  /\ \A e \in ExceptionsFor(s, r, NoRecord) :
                        exceptions[e].exception_type = "unmatched_ledger"
            /\ \A r \in Unmatched(bank_records, s) :
                  /\ Cardinality({e \in OfSession(exceptions, s) :
                                     exceptions[e].bank_record = r})
                        = dispatched[s].matching
                  /\ \A e \in ExceptionsFor(s, NoRecord, r) :
                        exceptions[e].exception_type = "unmatched_bank"

\* a second run has completed on a session with a match and with unmatched records
\* on both sides
C21_Witness ==
    \E s \in Sessions :
        /\ TaskOn(s) = {}
        /\ session[s].status = "completed"
        /\ dispatched[s].matching >= 2
        /\ OfSession(matches, s) # {}
        /\ Unmatched(ledger_records, s) # {}
        /\ Unmatched(bank_records, s) # {}

\* worker w ends the scan of the bank records for the ledger record at the head of
\* its queue
ScanStep(w) ==
    /\ task[w].pc = "m_scan"
    /\ task'[w] # task[w]
    /\ task'[w].pc # "idle"

\* the bank records of session s that score at least 0.70 against ledger record l
Qualifying(s, l, free) == {b \in free : RLe(Rat(70, 100), Score(s, l, b))}

\* C22: when a ledger record is processed, it is matched if and only if some bank
\* record unmatched at that moment scores >= 0.70 against it; the bank record it is
\* matched to has the maximum score among the bank records unmatched at that moment,
\* and is none that an earlier ledger record of the same pass was matched to.
C22_GreedyBestMatch ==
    [][\A w \in Workers :
          LET s == task[w].session_id
              l == Head(task[w].queue)
              free == Unmatched(bank_records, s)
              best == task'[w].best_match
          IN  /\ ScanStep(w) =>
                    /\ task'[w].pc = "m_create" <=> Qualifying(s, l, free) # {}
                    /\ task'[w].pc # "m_create" =>
                          /\ task'[w].queue = Tail(task[w].queue)
                          /\ UNCHANGED db
                    /\ task'[w].pc = "m_create" =>
                          /\ best \in Qualifying(s, l, free)
                          /\ \A b \in free : RLe(Score(s, l, b), Score(s, l, best))
                          /\ task'[w].best_score = Score(s, l, best)
                          /\ task'[w].queue = task[w].queue
                          /\ dispatched[s].matching = 1 =>
                                \A m \in MatchesOf(s) : m.bank_record # best
              /\ (task[w].pc = "m_create" /\ task'[w].pc = "m_mark_ledger") =>
                    /\ Len(matches') = Len(matches) + 1
                    /\ matches'[Len(matches')].ledger_record = l
                    /\ matches'[Len(matches')].bank_record = task[w].best_match
                    /\ matches'[Len(matches')].confidence_score
                          = Score(s, l, task[w].best_match)]_vars

\* a ledger record has taken the better of two bank records that both score at
\* least 0.70 against it
C22_Witness ==
    \E w \in Workers :
        /\ task[w].pc = "m_create"
        /\ \E b \in Unmatched(bank_records, task[w].session_id) :
              /\ b # task[w].best_match
              /\ RLe(Rat(70, 100), Score(task[w].session_id, Head(task[w].queue), b))
              /\ RLt(Score(task[w].session_id, Head(task[w].queue), b), task[w].best_score)

\* the bank records among `free` with the highest score against ledger record l
Highest(s, l, free) ==
    {b \in free : \A c \in free : RLe(Score(s, l, c), Score(s, l, b))}

StatedException(e) ==
    /\ e.severity = "medium"
    /\ \/ /\ e.exception_type = "unmatched_ledger"
          /\ e.ledger_record \in Unmatched(ledger_records, e.session)
          /\ e.bank_record = NoRecord
       \/ /\ e.exception_type = "unmatched_bank"
          /\ e.bank_record \in Unmatched(bank_records, e.session)
          /\ e.ledger_record = NoRecord

\* create_exception_records has returned in the run of session s
ExceptionsCreated(s) ==
    \E w \in Workers :
        /\ task[w].name = "matching"
        /\ task[w].session_id = s
        /\ \/ task[w].pc \in {"m_stats", "m_complete"}
           \/ task[w].pc = "idle" /\ task[w].result = "success"

\* C24: a run of create_exception_records creates exactly one exception per record
\* that is unmatched at that time: unmatched_ledger with only ledger_record set,
\* unmatched_bank with only bank_record set, severity medium; no exception
\* references both a ledger and a bank record or a record of another session.
C24_OneExceptionPerRecord ==
    /\ \A i \in DOMAIN exceptions : StatedException(exceptions[i])
    /\ \A s \in Sessions :
          ExceptionsCreated(s) =>
              /\ \A r \in Unmatched(ledger_records, s) :
                    Cardinality(ExceptionsFor(s, r, NoRecord)) = 1
              /\ \A r \in Unmatched(bank_records, s) :
                    Cardinality(ExceptionsFor(s, NoRecord, r)) = 1
              /\ Cardinality(OfSession(exceptions, s))
                    = Cardinality(Unmatched(ledger_records, s))
                         + Cardinality(Unmatched(bank_records, s))

\* both sessions have their exceptions, those of the second created between two
\* of the first, which has a match and an exception of either type
C24_Witness ==
    /\ \A s \in Sessions : ExceptionsCreated(s)
    /\ OfSession(matches, 1) # {}
    /\ \E i, j, k \in DOMAIN exceptions :
          /\ i < j /\ j < k
          /\ exceptions[i].session = 1 /\ exceptions[j].session = 2
          /\ exceptions[k].session = 1
          /\ exceptions[i].exception_type = "unmatched_ledger"
          /\ exceptions[k].exception_type = "unmatched_bank"

\* the workers that are in perform_transaction_matching on session s
InMatchingPass(s) ==
    {w \in Workers :
        /\ task[w].session_id = s
        /\ task[w].pc \in {"m_ledger", "m_scan", "m_create", "m_mark_ledger",
                            "m_mark_bank"}}

\* no record of session s is referenced by two matches
MatchedOnce(s) ==
    \A i, j \in OfSession(matches, s) :
        i # j => /\ matches[i].ledger_record # matches[j].ledger_record
                 /\ matches[i].bank_record # matches[j].bank_record

\* C25: at most one matching pass is in progress on a session at any time: two
\* start requests for the same session, through the endpoint or as two dispatched
\* tasks, never both run perform_transaction_matching, and no interleaving of two
\* passes matches the same bank record or ledger record twice.
C25_OnePassPerSession ==
    \A s \in Sessions :
        /\ Cardinality(InMatchingPass(s)) <= 1
        /\ MatchedOnce(s)

\* the upload endpoint answers a request that its serializer accepted
UploadAnswered == call' # call /\ call'.view = "upload"

\* C26: in every reachable state the status of a session is one of created,
\* processing, completed, failed, whatever upload, start, task or failure path has
\* run; and an upload stores a new session whose status is created.
C26_StatusValues ==
    /\ [](\A s \in Sessions : session[s].status \in STATUS_CHOICES)
    /\ [][UploadAnswered =>
             /\ call'.session_id \in DOMAIN session' \ DOMAIN session
             /\ session'[call'.session_id].status = "created"]_vars

\* ledger record l and bank record b differ in amount by more than the tolerance of
\* session s
AmountApart(s, l, b) ==
    Abs(ledger_records[l].amount - bank_records[b].amount) > session[s].amount_tolerance

\* C27: every automatic match joins records whose amounts differ by at most the
\* session's amount_tolerance; a ledger record from which every unmatched bank
\* record differs in amount by more than the tolerance is not matched, whatever the
\* dates and descriptions, and has one unmatched_ledger exception for each run that
\* has ended.
C27_AmountWithinTolerance ==
    /\ [](\A i \in DOMAIN matches :
             /\ matches[i].amount_difference
                   = Abs(ledger_records[matches[i].ledger_record].amount
                            - bank_records[matches[i].bank_record].amount)
             /\ matches[i].amount_difference <= session[matches[i].session].amount_tolerance)
    /\ [](\A s \in Sessions : \A l \in OfSession(ledger_records, s) :
             (\A b \in OfSession(bank_records, s) : AmountApart(s, l, b)) =>
                 /\ ~ledger_records[l].is_matched
                 /\ (TaskOn(s) = {} /\ session[s].status = "completed") =>
                       /\ Cardinality(ExceptionsFor(s, l, NoRecord)) = dispatched[s].matching
                       /\ \A e \in ExceptionsFor(s, l, NoRecord) :
                             exceptions[e].exception_type = "unmatched_ledger")
    /\ [][\A w \in Workers :
             (/\ ScanStep(w)
              /\ \A b \in Unmatched(bank_records, task[w].session_id) :
                    AmountApart(task[w].session_id, Head(task[w].queue), b))
                => task'[w].pc # "m_create"]_vars

\* a run has completed in which a ledger record with the date and the description
\* of an unmatched bank record, but an amount further from every bank record than
\* the tolerance, was left with its exception
C27_Witness ==
    \E s \in Sessions :
        /\ TaskOn(s) = {}
        /\ session[s].status = "completed"
        /\ \E l \in Unmatched(ledger_records, s), b \in Unmatched(bank_records, s) :
              /\ \A c \in OfSession(bank_records, s) : AmountApart(s, l, c)
              /\ ledger_records[l].date = bank_records[b].date
              /\ ledger_records[l].description = bank_records[b].description
              /\ ExceptionsFor(s, l, NoRecord) # {}

\* a run of start_reconciliation_matching on session s has ended, completed or
\* failed, and no task has been started since
RunEnded(s) ==
    \E w \in Workers :
        /\ task[w].pc = "idle"
        /\ task[w].name = "matching"
        /\ task[w].session_id = s

\* the record is flagged exactly when one match references it, and carries that
\* match's confidence
FlagAsMatches(record, referring) ==
    /\ record.is_matched <=> Cardinality(referring) = 1
    /\ record.is_matched =>
          \A i \in referring : record.match_confidence = matches[i].confidence_score

\* C28: in every state reached after a matching run ends, completed or failed, a
\* ledger or bank record has is_matched = true if and only if exactly one
\* TransactionMatch references it, and its match_confidence is then that match's
\* confidence_score, the same on the ledger and the bank side.
C28_FlagsAgreeWithMatches ==
    \A s \in Sessions :
        RunEnded(s) =>
            /\ \A l \in OfSession(ledger_records, s) :
                  FlagAsMatches(ledger_records[l],
                                {i \in OfSession(matches, s) : matches[i].ledger_record = l})
            /\ \A b \in OfSession(bank_records, s) :
                  FlagAsMatches(bank_records[b],
                                {i \in OfSession(matches, s) : matches[i].bank_record = b})

\* the rows of session s keep their is_matched flags
SameFlags(table, table2, s) ==
    \A r \in OfSession(table, s) :
        r \in DOMAIN table2 /\ table2[r].is_matched = table[r].is_matched

\* C29: when start_reconciliation_matching has completed on a session and is run
\* again with the same records and tolerances, the later run creates no
\* TransactionMatch and changes no is_matched flag: no ledger record left unmatched
\* has an unmatched bank record scoring >= 0.70.
C29_RerunFindsNothing ==
    /\ [](\A s \in Sessions :
             (TaskOn(s) = {} /\ session[s].status = "completed") =>
                 \A l \in Unmatched(ledger_records, s), b \in Unmatched(bank_records, s) :
                     RLt(Score(s, l, b), Rat(70, 100)))
    /\ [][\A s \in Sessions :
             dispatched[s].matching >= 2 =>
                 /\ SameRows(matches, matches', s)
                 /\ SameFlags(ledger_records, ledger_records', s)
                 /\ SameFlags(bank_records, bank_records', s)]_vars

\* a later run has scanned its ledger records, with unmatched records on both sides
\* and a match of the first run in place
C29_Witness ==
    \E w \in Workers :
        /\ task[w].pc = "e_ledger"
        /\ dispatched[task[w].session_id].matching >= 2
        /\ OfSession(matches, task[w].session_id) # {}
        /\ Unmatched(ledger_records, task[w].session_id) # {}
        /\ Unmatched(bank_records, task[w].session_id) # {}

\* C30: every automatic match joins records whose dates differ by at most the
\* session's date_tolerance_days: no TransactionMatch is created with
\* date_difference_days greater than date_tolerance_days.
C30_DateWithinTolerance ==
    \A i \in DOMAIN matches :
        matches[i].date_difference_days <= session[matches[i].session].date_tolerance_days

\* C30, amended: a TransactionMatch whose date_difference_days is greater than the
\* session's date_tolerance_days joins records with equal amounts and the same words
\* in their descriptions, and has confidence_score 0.70: the date adds nothing to
\* its score.  date_difference_days is the distance of the two dates.
C30_DateWithinToleranceOrExact ==
    \A i \in DOMAIN matches :
        LET m == matches[i]
            l == ledger_records[m.ledger_record]
            b == bank_records[m.bank_record]
        IN  /\ m.date_difference_days = Abs(l.date - b.date)
            /\ m.date_difference_days > session[m.session].date_tolerance_days =>
                  /\ l.amount = b.amount
                  /\ m.amount_difference = 0
                  /\ WordSet(l.description) = WordSet(b.description)
                  /\ m.confidence_score = Rat(70, 100)

\* a completed run has matched records twelve days apart under a tolerance of one
\* day, next to a match within the tolerance
C30_Witness ==
    \E s \in Sessions :
        /\ session[s].status = "completed"
        /\ \E i, j \in OfSession(matches, s) :
              /\ matches[i].date_difference_days > session[s].date_tolerance_days
              /\ matches[j].date_difference_days <= session[s].date_tolerance_days

====
